---------------------------- MODULE Spec2Model ----------------------------
(***************************************************************************)
(* Octree construction, flattening, upload and GPU ray traversal of the    *)
(* Homogeneous voxel renderer (src/src/voxel_renderer.cpp and              *)
(* src/assets/shaders/raymarching.frag).                                   *)
(*                                                                         *)
(* Numbers.  Voxel positions and cube corners are integers (the builder    *)
(* only ever halves a power-of-two edge down to 1).  Floating point is     *)
(* modelled by exact rational arithmetic; rounding is not modelled.  Ray    *)
(* origins are given in half grid units (ro2 = 2 * ro), ray directions are  *)
(* integer vectors.  A ray parameter t is the rational                      *)
(*      (hi * E + lo) / (2 * (n * E + 1)),   E = 1 / EPSILON = EpsInv,      *)
(* kept as the record [hi, lo, n]: the slab test divides by rd + EPSILON = *)
(* (n * E + 1) / E.                                                         *)
(***************************************************************************)
EXTENDS Integers, Sequences, FiniteSets, TLC

(***************************************************************************)
(* Program constants                                                       *)
(***************************************************************************)
MAX_DEPTH == 16
STACK_SIZE == 64
EpsInv == 1000000
MAX_AO_SAMPLES == 16

(***************************************************************************)
(* Bounds of the model                                                     *)
(***************************************************************************)
MaxVoxels == 2
MaxCoord == 2
MaxVoxelData == 3
MaxMutations == 3
MaxUploads == 2

(***************************************************************************)
(* Small helpers                                                           *)
(***************************************************************************)
Min2(a, b) == IF a <= b THEN a ELSE b
Max2(a, b) == IF a >= b THEN a ELSE b
Abs(a) == IF a < 0 THEN -a ELSE a
Sgn(a) == IF a > 0 THEN 1 ELSE IF a < 0 THEN -1 ELSE 0

RECURSIVE Pow2(_)
Pow2(k) == IF k = 0 THEN 1 ELSE 2 * Pow2(k - 1)

\* bit i of the 8-bit mask m
Bit(m, i) == (m \div Pow2(i)) % 2 = 1

\* mutant of BitsBelow: the octant's own bit is counted too
BitsBelowInclusive(m, i) == Cardinality({j \in 0 .. i : Bit(m, j)})

\* number of set bits of m strictly below bit i (the shader's childOffset loop)
RECURSIVE BitsBelow(_, _)
BitsBelow(m, i) ==
    IF i = 0 THEN 0
    ELSE BitsBelow(m, i - 1) + (IF Bit(m, i - 1) THEN 1 ELSE 0)

PopCount(m) == BitsBelow(m, 8)

Octants == 0 .. 7

(***************************************************************************)
(* Colours: a glm::vec4 with channels in units of 1/255                    *)
(***************************************************************************)
RED   == <<255, 0, 0, 255>>
GREEN == <<0, 255, 0, 255>>
Colors == {RED, GREEN}

ClampByte(c) == Max2(0, Min2(c, 255))

\* packColor: the 32-bit word (r << 24) | (g << 16) | (b << 8) | a, kept as
\* its four bytes from the most significant to the least significant
packColor(color) ==
    <<ClampByte(color[1]), ClampByte(color[2]),
      ClampByte(color[3]), ClampByte(color[4])>>

ZeroWord == <<0, 0, 0, 0>>

(***************************************************************************)
(* buildOctree: the pointer tree                                           *)
(***************************************************************************)
Absent == [present |-> FALSE]

\* mutant of OctantOf: a position on a centre plane goes to the lower octant
OctantOfStrict(pos, center) ==
    (IF pos[1] > center[1] THEN 1 ELSE 0) +
    (IF pos[2] > center[2] THEN 2 ELSE 0) +
    (IF pos[3] > center[3] THEN 4 ELSE 0)

\* octant of a position relative to a cube centre (voxel_renderer.cpp:38-40)
OctantOf(pos, center) ==
    (IF pos[1] >= center[1] THEN 1 ELSE 0) +
    (IF pos[2] >= center[2] THEN 2 ELSE 0) +
    (IF pos[3] >= center[3] THEN 4 ELSE 0)

\* mutant of SubPoints: each bucket is filled from the end of the list
SubPointsBackwards(points, center, i) ==
    LET sel == SelectSeq(points, LAMBDA p : OctantOf(p.pos, center) = i)
    IN  [k \in 1 .. Len(sel) |-> sel[Len(sel) + 1 - k]]

\* the voxels of points that fall in octant i, in input order (subPoints[i])
SubPoints(points, center, i) ==
    SelectSeq(points, LAMBDA p : OctantOf(p.pos, center) = i)

Center(min, max) ==
    <<(min[1] + max[1]) \div 2, (min[2] + max[2]) \div 2, (min[3] + max[3]) \div 2>>

SubMin(min, center, i) ==
    <<IF Bit(i, 0) THEN center[1] ELSE min[1],
      IF Bit(i, 1) THEN center[2] ELSE min[2],
      IF Bit(i, 2) THEN center[3] ELSE min[3]>>

SubMax(max, center, i) ==
    <<IF Bit(i, 0) THEN max[1] ELSE center[1],
      IF Bit(i, 1) THEN max[2] ELSE center[2],
      IF Bit(i, 2) THEN max[3] ELSE center[3]>>

\* mutant of MaskOf: the bit of octant 0 is never set
MaskOfSkipFirst(children, i) ==
    LET b(j) == IF j >= i /\ children[j + 1].present THEN Pow2(j) ELSE 0
    IN  b(1) + b(2) + b(3) + b(4) + b(5) + b(6) + b(7)

\* childMask |= (1 << i) for every non-absent child
RECURSIVE MaskOf(_, _)
MaskOf(children, i) ==
    IF i = 8 THEN 0
    ELSE (IF children[i + 1].present THEN Pow2(i) ELSE 0) + MaskOf(children, i + 1)

\* mutant of IsLeafCube: only the edge length ends the subdivision
IsLeafCubeEdgeOnly(min, max, depth) == max[1] - min[1] <= 1

IsLeafCube(min, max, depth) == depth >= MAX_DEPTH \/ max[1] - min[1] <= 1

RECURSIVE buildOctree(_, _, _, _)
buildOctree(points, min, max, depth) ==
    IF points = <<>> THEN Absent
    ELSE IF IsLeafCube(min, max, depth)
    THEN [present |-> TRUE, leaf |-> TRUE, color |-> points[1].color,
          childMask |-> 0,
          children |-> <<Absent, Absent, Absent, Absent, Absent, Absent, Absent, Absent>>]
    ELSE LET center == Center(min, max)
             child(i) == buildOctree(SubPoints(points, center, i),
                                     SubMin(min, center, i),
                                     SubMax(max, center, i),
                                     depth + 1)
             children == <<child(0), child(1), child(2), child(3),
                           child(4), child(5), child(6), child(7)>>
         IN  [present |-> TRUE, leaf |-> FALSE, color |-> <<0, 0, 0, 0>>,
              childMask |-> MaskOf(children, 0), children |-> children]

(***************************************************************************)
(* buildOctreeFromVoxels: bounding cube                                    *)
(***************************************************************************)
\* the running std::min / std::max over the voxels' coordinates on one axis
SeqMin(points, axis) ==
    LET vals == {points[i].pos[axis] : i \in 1 .. Len(points)}
    IN  CHOOSE m \in vals : \A v \in vals : m <= v

SeqMax(points, axis) ==
    LET vals == {points[i].pos[axis] : i \in 1 .. Len(points)}
    IN  CHOOSE m \in vals : \A v \in vals : m >= v

Extent(points) ==
    Max2(Max2(SeqMax(points, 1) - SeqMin(points, 1) + 1,
              SeqMax(points, 2) - SeqMin(points, 2) + 1),
         SeqMax(points, 3) - SeqMin(points, 3) + 1)

\* float pot = 1; while (pot < extent) pot *= 2;
RECURSIVE PotFrom(_, _)
PotFrom(pot, extent) == IF pot < extent THEN PotFrom(2 * pot, extent) ELSE pot

BoundsMin(points) == <<SeqMin(points, 1), SeqMin(points, 2), SeqMin(points, 3)>>

\* mutant of BoundsMax: the extent taken as max - min, without the voxel's own cell
BoundsMaxNoCell(points) ==
    LET pot == PotFrom(1, Extent(points) - 1)
        bmin == BoundsMin(points)
    IN  <<bmin[1] + pot, bmin[2] + pot, bmin[3] + pot>>

\* mutant of BoundsMax: the doubling loop runs once more than needed
BoundsMaxDoubled(points) ==
    LET pot == 2 * PotFrom(1, Extent(points))
        bmin == BoundsMin(points)
    IN  <<bmin[1] + pot, bmin[2] + pot, bmin[3] + pot>>

BoundsMax(points) ==
    LET pot == PotFrom(1, Extent(points))
        bmin == BoundsMin(points)
    IN  <<bmin[1] + pot, bmin[2] + pot, bmin[3] + pot>>

(***************************************************************************)
(* buildOctreeFromVoxels: breadth-first flattening                         *)
(* A GPUNode is [childMask, color]; slot s of the C++ vector is data[s+1].  *)
(***************************************************************************)
GPUNode(mask, color) == [childMask |-> mask, color |-> color]

\* the octants of node that have a child, ascending
ChildOctants(node) == SelectSeq(<<0, 1, 2, 3, 4, 5, 6, 7>>,
                                LAMBDA i : node.children[i + 1].present)

\* mutant of ChildEntries: the children's slots handed out in descending octant order
ChildEntriesReversed(node, firstChildIdx) ==
    LET occ == ChildOctants(node)
    IN  [k \in 1 .. Len(occ) |->
            [node |-> node.children[occ[k] + 1], selfIdx |-> firstChildIdx + Len(occ) - k]]

\* the queue entries pushed for the children of node, first slot firstChildIdx
ChildEntries(node, firstChildIdx) ==
    LET occ == ChildOctants(node)
    IN  [k \in 1 .. Len(occ) |->
            [node |-> node.children[occ[k] + 1], selfIdx |-> firstChildIdx + k - 1]]

\* mutant of EncodeHeader: the first child index is not shifted into the header
EncodeHeaderMaskOnly(firstChildIdx, mask) == mask

EncodeHeader(firstChildIdx, mask) == firstChildIdx * 256 + mask

\* one iteration of while (!queue.empty()), to the end of the loop body;
\* st is the loop's state [queue, data]
FlattenStep(st) ==
    IF st.queue = <<>> THEN st
    ELSE LET entry == Head(st.queue)
             slot == entry.selfIdx + 1
             col == packColor(entry.node.color)
         IN  IF entry.node.leaf
             THEN [queue |-> Tail(st.queue),
                   data |-> [st.data EXCEPT ![slot] = GPUNode(0, col)]]
             ELSE LET firstChildIdx == Len(st.data)
                      kids == ChildEntries(entry.node, firstChildIdx)
                      grown == st.data \o [k \in 1 .. Len(kids) |-> GPUNode(0, ZeroWord)]
                  IN  [queue |-> Tail(st.queue) \o kids,
                       data |-> [grown EXCEPT ![slot] =
                                   GPUNode(EncodeHeader(firstChildIdx,
                                                        entry.node.childMask), col)]]

\* 2^k consecutive iterations (fewer when the queue runs empty), split in
\* halves so that the nesting of the evaluation grows with k
RECURSIVE FlattenSteps(_, _)
FlattenSteps(st, k) ==
    IF k = 0 THEN FlattenStep(st)
    ELSE LET half == FlattenSteps(st, k - 1)
         IN  IF half.queue = <<>> THEN half ELSE FlattenSteps(half, k - 1)

\* the iterations in blocks of 1, 2, 4, ... until the queue is empty
RECURSIVE FlattenRun(_, _)
FlattenRun(st, k) ==
    IF st.queue = <<>> THEN st.data
    ELSE FlattenRun(FlattenSteps(st, k), k + 1)

\* while (!queue.empty()) { ... }
FlattenLoop(queue, data) == FlattenRun([queue |-> queue, data |-> data], 0)

\* mutant of Flatten: the root slot is allocated twice
FlattenTwoRootSlots(root) ==
    FlattenLoop(<<[node |-> root, selfIdx |-> 0]>>,
                <<GPUNode(0, ZeroWord), GPUNode(0, ZeroWord)>>)

Flatten(root) ==
    FlattenLoop(<<[node |-> root, selfIdx |-> 0]>>, <<GPUNode(0, ZeroWord)>>)

(***************************************************************************)
(* State                                                                   *)
(***************************************************************************)
VARIABLES
    voxelData,          \* VoxelRenderer::voxelData (position and colour)
    voxelDataDirty,
    octreeData,         \* VoxelRenderer::octreeData
    octreeDataDirty,
    octreeBoundsMin,
    octreeBoundsMax,
    nodeCount,          \* OctreeBuffer.nodeCount on the GPU
    nodes,              \* OctreeBuffer.nodes[] on the GPU
    u_octreeMin,        \* uniforms of the shader program
    u_octreeMax,
    drawn,              \* a draw call has been issued
    pc,                 \* the evaluation unit: "idle", "loop" (in the stack loop), "done"
    mode,               \* "primary" (traceOctree from main), "shadow", "ao" (one ao sample)
    ro, rd,             \* the unit's ray: origin in half grid units, integer direction
    stack,              \* StackEntry stack[64]; sp = Len(stack)
    closestT,
    result,             \* traceOctree's vec4 result: [rgb, a]
    shadowed,           \* traceShadow's return value
    occAdded,           \* the ao sample executed occ += sca
    nodeReads,          \* how many times the unit has read nodes[]
    recorded,           \* the unit has recorded a leaf as its hit
    rejected,           \* the unit has skipped a push because sp = 64
    pushLog,            \* the node indices the unit has pushed, in order
    iterations,         \* iterations of while (sp > 0) the unit has begun
    hitNormal,          \* traceOctree's out parameter hitNormal
    mutations,          \* setVoxels / addVoxel / clearVoxels calls of the current batch:
                        \* those since the render before the latest mutation
    rebuilds,           \* octree builds of the current batch
    builtFrom,          \* the voxel list octreeData was last built from
    uploads,            \* octree buffer transfers since the last setVoxels call
    residentFrom,       \* the voxel list whose build the GPU buffer holds
    aoSampleCount,      \* VoxelRenderer::aoSampleCount, a public field
    u_aoSampleCount,    \* uniform of the shader program
    aoPc,               \* the ao routine: "idle", "loop" (at the loop test),
                        \* "sample" (in traceOctree), "done" (returned)
    aoOrigin,           \* ao's origin, in half grid units
    aoSeed,             \* ao's seed
    aoI,                \* ao's loop counter i
    occ, sca,           \* ao's occ and sca, in units of 2^-16
    aoRays,             \* traceOctree calls made by the ao routine
    vao,                \* ao's return value, in units of 2^-16
    parked              \* a second unit of the same draw, not running at the moment

rvars == <<voxelData, voxelDataDirty, octreeData, octreeDataDirty,
           octreeBoundsMin, octreeBoundsMax, mutations, rebuilds, builtFrom,
           aoSampleCount>>
gvars == <<nodeCount, nodes, u_octreeMin, u_octreeMax, drawn, uploads, residentFrom,
           u_aoSampleCount>>
tvars == <<pc, mode, ro, rd, stack, closestT, result, shadowed, occAdded,
           nodeReads, recorded, rejected, pushLog, iterations, hitNormal>>
avars == <<aoPc, aoOrigin, aoSeed, aoI, occ, sca, aoRays, vao>>
vars == <<rvars, gvars, tvars, avars, parked>>

(***************************************************************************)
(* Shader arithmetic: the rationals (hi * E + lo) / (2 * (n * E + 1))      *)
(***************************************************************************)
Q(hi, lo, n) == [hi |-> hi, lo |-> lo, n |-> n]
QZero == Q(0, 0, 0)
\* w / 2, for an integer w
QHalves(w) == Q(0, w, 0)
\* 1e10 = (1e10 / E) * E, the initial closestT
QFar == Q(2 * (100000 \div (EpsInv \div 100000)), 0, 0)
\* -1.0, the miss sentinel
QMiss == QHalves(-2)

\* sign of a * E^2 + b * E + c, taken coefficient by coefficient: exact while
\* |b| < E - 1 and |c| < E, which every coordinate of the model keeps by far
Sign3(a, b, c) ==
    IF a # 0 THEN Sgn(a)
    ELSE IF b # 0 THEN Sgn(b)
    ELSE Sgn(c)

\* sign of the denominator n * E + 1
DenSign(n) == IF n >= 0 THEN 1 ELSE -1

\* sign of p - q
QCmp(p, q) ==
    DenSign(p.n) * DenSign(q.n) *
        Sign3(p.hi * q.n - q.hi * p.n,
              p.hi + p.lo * q.n - q.hi - q.lo * p.n,
              p.lo - q.lo)

QLess(p, q) == QCmp(p, q) < 0
QLeq(p, q) == QCmp(p, q) <= 0
\* zero has one representation, so equal values are equal records
QNorm(p) == IF p.hi = 0 /\ p.lo = 0 THEN QZero ELSE p
QMin(p, q) == IF QLeq(p, q) THEN p ELSE q
QMax(p, q) == IF QLeq(q, p) THEN p ELSE q
QScale(k, p) == QNorm(Q(k * p.hi, k * p.lo, p.n))

\* (b - ro) * invDir on axis a, invDir = 1 / (rd + EPSILON)
SlabT(o, d, b, a) == QNorm(Q(2 * b[a] - o[a], 0, d[a]))

\* rayAABB: <<tNear, tFar>>
rayAABB(o, d, bmin, bmax) ==
    LET tmin(a) == QMin(SlabT(o, d, bmin, a), SlabT(o, d, bmax, a))
        tmax(a) == QMax(SlabT(o, d, bmin, a), SlabT(o, d, bmax, a))
    IN  <<QMax(QMax(tmin(1), tmin(2)), tmin(3)),
          QMin(QMin(tmax(1), tmax(2)), tmax(3))>>

\* mutant of MissesBox: a box wholly behind the origin is not told from a hit
MissesBoxNoBehind(t) == QLess(t[2], t[1])

\* tNear > tFar || tFar < 0
MissesBox(t) == QLess(t[2], t[1]) \/ QLess(t[2], QZero)

\* mutant of ClampEnter: the entry distance is stored as computed
ClampEnterNone(t) == t

\* max(t, 0.0), the entry distance a stack entry stores
ClampEnter(t) == QMax(t, QZero)

\* UNPACK_RGBA(packed).rgb: unpackUnorm4x8 takes x from the least significant
\* byte, and .abgr reverses the four components
unpackUnorm4x8(word) == <<word[4], word[3], word[2], word[1]>>

\* mutant of Abgr: the components are used in the order unpackUnorm4x8 gives them
AbgrNone(v) == v

Abgr(v) == <<v[4], v[3], v[2], v[1]>>
UnpackRgb(word) == SubSeq(Abgr(unpackUnorm4x8(word)), 1, 3)

(***************************************************************************)
(* Shader: traceOctree and traceShadow                                     *)
(***************************************************************************)
\* firstChildIdx = childMask >> 8, existMask = childMask & 0xFF
HeaderFirst(header) == header \div 256
HeaderMask(header) == header % 256

StackEntry(nodeIdx, bmin, bmax, tEnter, tExit) ==
    [nodeIdx |-> nodeIdx, bmin |-> bmin, bmax |-> bmax, tEnter |-> tEnter, tExit |-> tExit]

MissResult == [rgb |-> <<0, 0, 0>>, a |-> QMiss]

\* what a read of nodes[idx] beyond the uploaded records may give
OutOfBoundsNodes == {GPUNode(0, ZeroWord), GPUNode(0, <<255, 255, 255, 255>>)}
\* mutant of ReadNode: a record may be read while it is being written
ReadNodeRacy(idx) ==
    IF idx < Len(nodes) THEN {nodes[idx + 1]} \cup OutOfBoundsNodes ELSE OutOfBoundsNodes

ReadNode(idx) == IF idx < Len(nodes) THEN {nodes[idx + 1]} ELSE OutOfBoundsNodes

\* ro + rd * tEnter > center on axis a
EntryAbove(o, d, tEnter, center, a) ==
    QLess(QHalves(2 * center[a] - o[a]), QScale(d[a], tEnter))

EntryOctant(o, d, tEnter, center) ==
    (IF EntryAbove(o, d, tEnter, center, 1) THEN 1 ELSE 0) +
    (IF EntryAbove(o, d, tEnter, center, 2) THEN 2 ELSE 0) +
    (IF EntryAbove(o, d, tEnter, center, 3) THEN 4 ELSE 0)

\* i ^ e on three bits
Xor3(i, e) ==
    (IF Bit(i, 0) # Bit(e, 0) THEN 1 ELSE 0) +
    (IF Bit(i, 1) # Bit(e, 1) THEN 2 ELSE 0) +
    (IF Bit(i, 2) # Bit(e, 2) THEN 4 ELSE 0)

\* the child AABB of octant childIdx
ChildMin(entry, center, childIdx) ==
    <<IF Bit(childIdx, 0) THEN center[1] ELSE entry.bmin[1],
      IF Bit(childIdx, 1) THEN center[2] ELSE entry.bmin[2],
      IF Bit(childIdx, 2) THEN center[3] ELSE entry.bmin[3]>>

ChildMax(entry, center, childIdx) ==
    <<IF Bit(childIdx, 0) THEN entry.bmax[1] ELSE center[1],
      IF Bit(childIdx, 1) THEN entry.bmax[2] ELSE center[2],
      IF Bit(childIdx, 2) THEN entry.bmax[3] ELSE center[3]>>

\* the test that lets a child be pushed: traceOctree also requires it nearer
\* than the closest hit, traceShadow does not
ChildWanted(m, tChild, closest) ==
    /\ QLeq(tChild[1], tChild[2])
    /\ QLeq(QZero, tChild[2])
    /\ (m = "shadow" \/ QLess(tChild[1], closest))

\* mutant of Push: the entry is stored in two slots
PushTwice(stk, e) ==
    IF Len(stk) < STACK_SIZE - 1 THEN <<Append(Append(stk, e), e), FALSE>> ELSE <<stk, TRUE>>

\* if (sp < 64) stack[sp++] = e: <<the stack, whether the push was skipped>>
Push(stk, e) ==
    IF Len(stk) < STACK_SIZE THEN <<Append(stk, e), FALSE>> ELSE <<stk, TRUE>>

\* for (int i = 7; i >= 0; i--): <<the stack, whether a push was skipped>>
RECURSIVE PushChildren(_, _, _, _, _, _, _)
PushChildren(i, m, entry, header, entryOctant, closest, acc) ==
    IF i < 0 THEN acc
    ELSE LET childIdx == Xor3(i, entryOctant)
             existMask == HeaderMask(header)
             center == Center(entry.bmin, entry.bmax)
             cmin == ChildMin(entry, center, childIdx)
             cmax == ChildMax(entry, center, childIdx)
             tChild == rayAABB(ro, rd, cmin, cmax)
             childNodeIdx == HeaderFirst(header) + BitsBelow(existMask, childIdx)
             pushed == Push(acc[1], StackEntry(childNodeIdx, cmin, cmax,
                                               ClampEnter(tChild[1]), tChild[2]))
         IN  IF Bit(existMask, childIdx) /\ ChildWanted(m, tChild, closest)
             THEN PushChildren(i - 1, m, entry, header, entryOctant, closest,
                               <<pushed[1], acc[2] \/ pushed[2]>>)
             ELSE PushChildren(i - 1, m, entry, header, entryOctant, closest, acc)

\* the children of an internal node, pushed on stk
Expand(m, entry, header, closest, stk) ==
    PushChildren(7, m, entry, header,
                 EntryOctant(ro, rd, entry.tEnter, Center(entry.bmin, entry.bmax)),
                 closest, <<stk, FALSE>>)

\* (b - ro) * invDir on axis a with invDir = 1.0 / rd: a fraction num / den, or
\* for rd = 0 an infinity, or 0 * infinity, a NaN
FaceT(o, d, b, a) ==
    IF d[a] # 0 THEN [k |-> "fin", num |-> 2 * b[a] - o[a], den |-> 2 * d[a]]
    ELSE IF 2 * b[a] > o[a] THEN [k |-> "pinf", num |-> 1, den |-> 0]
    ELSE IF 2 * b[a] < o[a] THEN [k |-> "ninf", num |-> -1, den |-> 0]
    ELSE [k |-> "nan", num |-> 0, den |-> 0]

\* x < y for two values that are not NaN
FaceLess(x, y) ==
    IF x.k = "fin" /\ y.k = "fin"
    THEN (x.num * y.den - y.num * x.den) * Sgn(x.den) * Sgn(y.den) < 0
    ELSE x.k # y.k /\ (x.k = "ninf" \/ y.k = "pinf")

\* x > y: with a NaN operand the outcome is not defined by GLSL
FaceGreater(x, y) ==
    IF x.k = "nan" \/ y.k = "nan" THEN {TRUE, FALSE} ELSE {FaceLess(y, x)}

\* min(x, y): with a NaN operand either operand may be returned
FaceMin(x, y) ==
    IF x.k = "nan" \/ y.k = "nan" THEN {x, y}
    ELSE IF FaceLess(y, x) THEN {y} ELSE {x}

\* tNearV = min(t0, t1) on axis a
tNearV(o, d, bmin, bmax, a) == FaceMin(FaceT(o, d, bmin, a), FaceT(o, d, bmax, a))

\* vec3(-sign(rd.x), 0.0, 0.0) and its like on the other axes
AxisNormal(d, a) == [b \in 1 .. 3 |-> IF b = a THEN -Sgn(d[a]) ELSE 0]

\* the values the entry face test may give hitNormal
HitNormals(o, d, bmin, bmax) ==
    {IF xy /\ xz THEN AxisNormal(d, 1)
     ELSE IF yz THEN AxisNormal(d, 2)
     ELSE AxisNormal(d, 3) :
        <<xy, xz, yz>> \in UNION {FaceGreater(x, y) \X FaceGreater(x, z) \X FaceGreater(y, z) :
            <<x, y, z>> \in tNearV(o, d, bmin, bmax, 1) \X tNearV(o, d, bmin, bmax, 2)
                                  \X tNearV(o, d, bmin, bmax, 3)}}

\* hitNormal before traceOctree has set it: main reads it only after a hit
NoNormal == <<0, 0, 0>>

\* the locals of a unit that has not begun
IdleLocals ==
    [pc |-> "idle", mode |-> "primary", ro |-> <<0, 0, 0>>, rd |-> <<0, 0, 0>>,
     stack |-> <<>>, closestT |-> QFar, result |-> MissResult, shadowed |-> FALSE,
     occAdded |-> FALSE, nodeReads |-> 0, recorded |-> FALSE, rejected |-> FALSE,
     pushLog |-> <<>>, iterations |-> 0, hitNormal |-> NoNormal]

IdleUnit ==
    /\ pc' = "idle"
    /\ mode' = "primary"
    /\ ro' = <<0, 0, 0>>
    /\ rd' = <<0, 0, 0>>
    /\ stack' = <<>>
    /\ closestT' = QFar
    /\ result' = MissResult
    /\ shadowed' = FALSE
    /\ occAdded' = FALSE
    /\ nodeReads' = 0
    /\ recorded' = FALSE
    /\ rejected' = FALSE
    /\ pushLog' = <<>>
    /\ iterations' = 0
    /\ hitNormal' = NoNormal

\* mutant of AoTest: any hit counts, however far
AoTestAnyHit(res) == QLeq(QZero, res.a)

\* if (hit.a >= 0.0 && hit.a < 4.0) occ += sca, for the ao sample
AoTest(res) == QLeq(QZero, res.a) /\ QLess(res.a, QHalves(8))

\* the unit returns: traceOctree's result, traceShadow's false, the ao test
Return(m, res, shadow) ==
    /\ pc' = "done"
    /\ result' = res
    /\ shadowed' = shadow
    /\ occAdded' = (m = "ao" /\ AoTest(res))

\* mutant of EmptyBuffer: only a count of exactly zero is taken as empty
EmptyBufferZeroOnly == nodeCount = 0

\* if (nodeCount <= 0) return
EmptyBuffer == nodeCount <= 0

\* the node indices of the entries of stk above the lowest below of them
IndicesAbove(stk, below) ==
    [k \in 1 .. Len(stk) - below |-> stk[below + k].nodeIdx]

\* entry of traceOctree / traceShadow, up to the first test of while (sp > 0)
TraceEnter(m, o, d) ==
    /\ pc = "idle"
    /\ drawn
    /\ mode' = m
    /\ ro' = o
    /\ rd' = d
    /\ closestT' = QFar
    /\ nodeReads' = 0
    /\ recorded' = FALSE
    /\ rejected' = FALSE
    /\ LET tRoot == rayAABB(o, d, u_octreeMin, u_octreeMax)
       IN  IF EmptyBuffer \/ MissesBox(tRoot)
           THEN /\ stack' = <<>>
                /\ Return(m, MissResult, FALSE)
           ELSE /\ stack' = <<StackEntry(0, u_octreeMin, u_octreeMax,
                                         ClampEnter(tRoot[1]), tRoot[2])>>
                /\ pc' = "loop"
                /\ result' = MissResult
                /\ shadowed' = FALSE
                /\ occAdded' = FALSE
    /\ pushLog' = IndicesAbove(stack', 0)
    /\ iterations' = 0
    /\ hitNormal' = NoNormal
    /\ UNCHANGED <<rvars, gvars, parked>>

\* a unit of its own: main's traceOctree or traceShadow call, or one sample
TraceBegin(m, o, d) ==
    /\ aoPc = "idle"
    /\ TraceEnter(m, o, d)
    /\ UNCHANGED avars

\* one iteration of while (sp > 0) of traceOctree, and the return after the
\* iteration that empties the stack
OctreeStep ==
    /\ pc = "loop"
    /\ mode \in {"primary", "ao"}
    /\ LET entry == stack[Len(stack)]
           popped == SubSeq(stack, 1, Len(stack) - 1)
       IN  IF QLess(closestT, entry.tEnter)
           THEN \* pruned: farther than the closest hit
                /\ stack' = popped
                /\ UNCHANGED <<closestT, nodeReads, recorded, rejected, hitNormal>>
                /\ IF popped = <<>> THEN Return(mode, result, FALSE)
                   ELSE UNCHANGED <<pc, result, shadowed, occAdded>>
           ELSE \E node \in ReadNode(entry.nodeIdx) :
                /\ nodeReads' = nodeReads + 1
                /\ IF HeaderMask(node.childMask) = 0
                   THEN LET hit == QLess(entry.tEnter, closestT)
                            res == IF hit THEN [rgb |-> UnpackRgb(node.color),
                                                a |-> entry.tEnter]
                                   ELSE result
                        IN  /\ stack' = popped
                            /\ closestT' = IF hit THEN entry.tEnter ELSE closestT
                            /\ recorded' = (recorded \/ hit)
                            /\ hitNormal' \in (IF hit THEN HitNormals(ro, rd, entry.bmin, entry.bmax)
                                                      ELSE {hitNormal})
                            /\ UNCHANGED rejected
                            /\ IF popped = <<>> THEN Return(mode, res, FALSE)
                               ELSE /\ result' = res
                                    /\ UNCHANGED <<pc, shadowed, occAdded>>
                   ELSE LET ex == Expand(mode, entry, node.childMask, closestT, popped)
                        IN  /\ stack' = ex[1]
                            /\ rejected' = (rejected \/ ex[2])
                            /\ UNCHANGED <<closestT, recorded, hitNormal>>
                            /\ IF ex[1] = <<>> THEN Return(mode, result, FALSE)
                               ELSE UNCHANGED <<pc, result, shadowed, occAdded>>
    /\ pushLog' = pushLog \o IndicesAbove(stack', Len(stack) - 1)
    /\ iterations' = iterations + 1
    /\ UNCHANGED <<mode, ro, rd>>
    /\ UNCHANGED <<rvars, gvars, avars, parked>>

\* one iteration of while (sp > 0) of traceShadow, and its returns
ShadowStep ==
    /\ pc = "loop"
    /\ mode = "shadow"
    /\ LET entry == stack[Len(stack)]
           popped == SubSeq(stack, 1, Len(stack) - 1)
       IN  \E node \in ReadNode(entry.nodeIdx) :
            /\ nodeReads' = nodeReads + 1
            /\ IF HeaderMask(node.childMask) = 0
               THEN /\ stack' = popped
                    /\ UNCHANGED rejected
                    /\ Return(mode, result, TRUE)
               ELSE LET ex == Expand(mode, entry, node.childMask, closestT, popped)
                    IN  /\ stack' = ex[1]
                        /\ rejected' = (rejected \/ ex[2])
                        /\ IF ex[1] = <<>> THEN Return(mode, result, FALSE)
                           ELSE UNCHANGED <<pc, result, shadowed, occAdded>>
    /\ pushLog' = pushLog \o IndicesAbove(stack', Len(stack) - 1)
    /\ iterations' = iterations + 1
    /\ UNCHANGED <<mode, ro, rd, closestT, recorded, hitNormal>>
    /\ UNCHANGED <<rvars, gvars, avars, parked>>

\* the invocation ends; its locals are gone
UnitEnd ==
    /\ pc = "done"
    /\ aoPc = "idle"
    /\ IdleUnit
    /\ UNCHANGED <<rvars, gvars, avars, parked>>

\* the evaluator turns from the running unit to the other one: the locals
\* of each are kept as they are
Switch ==
    /\ aoPc = "idle"
    /\ parked' = [pc |-> pc, mode |-> mode, ro |-> ro, rd |-> rd, stack |-> stack,
                  closestT |-> closestT, result |-> result, shadowed |-> shadowed,
                  occAdded |-> occAdded, nodeReads |-> nodeReads,
                  recorded |-> recorded, rejected |-> rejected, pushLog |-> pushLog,
                  iterations |-> iterations, hitNormal |-> hitNormal]
    /\ pc' = parked.pc
    /\ mode' = parked.mode
    /\ ro' = parked.ro
    /\ rd' = parked.rd
    /\ stack' = parked.stack
    /\ closestT' = parked.closestT
    /\ result' = parked.result
    /\ shadowed' = parked.shadowed
    /\ occAdded' = parked.occAdded
    /\ nodeReads' = parked.nodeReads
    /\ recorded' = parked.recorded
    /\ rejected' = parked.rejected
    /\ pushLog' = parked.pushLog
    /\ iterations' = parked.iterations
    /\ hitNormal' = parked.hitNormal
    /\ UNCHANGED <<rvars, gvars, avars>>

Modes == {"primary", "shadow", "ao"}

(***************************************************************************)
(* Shader: ao                                                              *)
(***************************************************************************)
\* 1.0 in the unit of occ and sca: sixteen halvings of it are exact
AoOne == 65536

\* the six axis directions; the sin / fract hash of (float(i) + seed), flipped
\* into the hemisphere of the normal, is stood for by a table over them
AoDirTable ==
    <<<<1, 0, 0>>, <<-1, 0, 0>>, <<0, 1, 0>>, <<0, -1, 0>>, <<0, 0, 1>>, <<0, 0, -1>>>>

\* dir of sample i: a function of the seed and of i alone
AoDir(seed, i) == AoDirTable[((seed * (i + 1) + i) % Len(AoDirTable)) + 1]

IdleAo ==
    /\ aoPc' = "idle"
    /\ aoOrigin' = <<0, 0, 0>>
    /\ aoSeed' = 0
    /\ aoI' = 0
    /\ occ' = 0
    /\ sca' = 0
    /\ aoRays' = 0
    /\ vao' = 0

\* mutant of AoContinues: only the uniform bounds the loop
AoContinuesUniformOnly == aoI < u_aoSampleCount

\* i < MAX_AO_SAMPLES, and not (i >= u_aoSampleCount)
AoContinues == aoI < MAX_AO_SAMPLES /\ aoI < u_aoSampleCount

\* ao is entered: occ = 0.0, origin, seed, sca = 1.0, i = 0
AoBegin(origin, seed) ==
    /\ pc = "idle"
    /\ aoPc = "idle"
    /\ drawn
    /\ aoPc' = "loop"
    /\ aoOrigin' = origin
    /\ aoSeed' = seed
    /\ aoI' = 0
    /\ occ' = 0
    /\ sca' = AoOne
    /\ aoRays' = 0
    /\ vao' = 0
    /\ UNCHANGED <<rvars, gvars, tvars, parked>>

\* the loop goes on: dir is computed and traceOctree(origin, dir, dummy) is entered
AoSample ==
    /\ aoPc = "loop"
    /\ AoContinues
    /\ TraceEnter("ao", aoOrigin, AoDir(aoSeed, aoI))
    /\ aoPc' = "sample"
    /\ aoRays' = aoRays + 1
    /\ UNCHANGED <<aoOrigin, aoSeed, aoI, occ, sca, vao>>

\* traceOctree has returned: the test, occ += sca, sca *= 0.5, i++
AoAccumulate ==
    /\ aoPc = "sample"
    /\ pc = "done"
    /\ occ' = IF occAdded THEN occ + sca ELSE occ
    /\ sca' = sca \div 2
    /\ aoI' = aoI + 1
    /\ aoPc' = "loop"
    /\ IdleUnit
    /\ UNCHANGED <<aoOrigin, aoSeed, aoRays, vao>>
    /\ UNCHANGED <<rvars, gvars, parked>>

\* the loop ends: return clamp(occ, 0.0, 1.0)
AoReturn ==
    /\ aoPc = "loop"
    /\ ~AoContinues
    /\ vao' = Max2(0, Min2(occ, AoOne))
    /\ aoPc' = "done"
    /\ UNCHANGED <<aoOrigin, aoSeed, aoI, occ, sca, aoRays>>
    /\ UNCHANGED <<rvars, gvars, tvars, parked>>

\* main has used the value; ao's locals are gone
AoEnd ==
    /\ aoPc = "done"
    /\ IdleAo
    /\ UNCHANGED <<rvars, gvars, tvars, parked>>

(***************************************************************************)
(* Inputs                                                                  *)
(***************************************************************************)
Voxel(x, y, z, color) == [pos |-> <<x, y, z>>, color |-> color]

\* the voxels the enumerated lists are made of: a row along x that starts at a
\* negative coordinate, one voxel off the row on each other axis and on the
\* diagonal, and two positions in a second colour
GridPositions ==
    {<<x, 0, 0>> : x \in -1 .. MaxCoord} \cup {<<0, 1, 0>>, <<0, 0, 1>>, <<1, 1, 1>>}

GridVoxels ==
    {[pos |-> p, color |-> RED] : p \in GridPositions}
        \cup {[pos |-> p, color |-> GREEN] : p \in {<<0, 0, 0>>, <<1, 0, 0>>}}

RECURSIVE SeqsUpTo(_, _)
SeqsUpTo(S, n) ==
    IF n = 0 THEN {<<>>}
    ELSE LET shorter == SeqsUpTo(S, n - 1)
         IN  shorter \cup {Append(q, v) : q \in {r \in shorter : Len(r) = n - 1}, v \in S}

\* the fallback test scene of main.cpp:417-421, shifted to colours of the model
FallbackScene ==
    <<Voxel(-1, 0, -1, GREEN), Voxel(-1, 0, 0, GREEN), Voxel(-1, 0, 1, GREEN),
      Voxel(0, 0, -1, GREEN),  Voxel(0, 0, 0, GREEN),  Voxel(0, 0, 1, GREEN),
      Voxel(1, 0, -1, GREEN),  Voxel(1, 0, 0, GREEN),  Voxel(1, 0, 1, GREEN),
      Voxel(0, 1, 0, RED)>>

\* a full 2x2x2 block next to a lone voxel: internal nodes with 8 children
BlockScene ==
    <<Voxel(0, 0, 0, RED), Voxel(1, 0, 0, GREEN), Voxel(0, 1, 0, RED),
      Voxel(1, 1, 0, GREEN), Voxel(0, 0, 1, RED), Voxel(1, 0, 1, GREEN),
      Voxel(0, 1, 1, RED), Voxel(1, 1, 1, GREEN), Voxel(3, 3, 3, RED)>>

\* a cube of edge 2^17: the cubes at depth 16 have edge 2, and two voxels
\* share one of them
WideScene ==
    <<Voxel(1, 0, 0, GREEN), Voxel(0, 0, 0, RED), Voxel(131071, 0, 0, GREEN)>>

\* two positions, each given twice with different colours
StackedScene ==
    <<Voxel(1, 0, 0, GREEN), Voxel(0, 0, 0, GREEN), Voxel(0, 0, 0, RED), Voxel(1, 0, 0, RED)>>

VoxelLists ==
    SeqsUpTo(GridVoxels, MaxVoxels) \cup {FallbackScene, BlockScene, WideScene, StackedScene}

(***************************************************************************)
(* VoxelRenderer                                                           *)
(***************************************************************************)
\* what an OctreeBuffer created by glBufferData(..., nullptr, ...) may hold
UninitNodeCounts == {-1, 0, 1}

\* VoxelRenderer::VoxelRenderer and init()
Init ==
    /\ voxelData = <<>>
    /\ voxelDataDirty = TRUE
    /\ octreeData = <<>>
    /\ octreeDataDirty = FALSE
    /\ octreeBoundsMin = <<-128, -128, -128>>
    /\ octreeBoundsMax = <<128, 128, 128>>
    /\ nodeCount \in UninitNodeCounts
    /\ nodes = <<>>
    /\ u_octreeMin = <<0, 0, 0>>
    /\ u_octreeMax = <<0, 0, 0>>
    /\ drawn = FALSE
    /\ pc = "idle"
    /\ mode = "primary"
    /\ ro = <<0, 0, 0>>
    /\ rd = <<0, 0, 0>>
    /\ stack = <<>>
    /\ closestT = QFar
    /\ result = MissResult
    /\ shadowed = FALSE
    /\ occAdded = FALSE
    /\ nodeReads = 0
    /\ recorded = FALSE
    /\ rejected = FALSE
    /\ pushLog = <<>>
    /\ iterations = 0
    /\ hitNormal = NoNormal
    /\ mutations = 0
    /\ rebuilds = 0
    /\ builtFrom = <<>>
    /\ uploads = 0
    /\ residentFrom = <<>>
    /\ aoSampleCount = 4
    /\ u_aoSampleCount = 0
    /\ aoPc = "idle"
    /\ aoOrigin = <<0, 0, 0>>
    /\ aoSeed = 0
    /\ aoI = 0
    /\ occ = 0
    /\ sca = 0
    /\ aoRays = 0
    /\ vao = 0
    /\ parked = IdleLocals

\* mutant of buildOctreeFromVoxels: the records are appended to the old ones
buildOctreeFromVoxelsNoClear(points) ==
    IF points = <<>>
    THEN <<octreeBoundsMin, octreeBoundsMax, octreeData>>
    ELSE LET bmin == BoundsMin(points)
             bmax == BoundsMax(points)
             octreeRoot == buildOctree(points, bmin, bmax, 0)
         IN  <<bmin, bmax, octreeData \o Flatten(octreeRoot)>>

\* mutant of buildOctreeFromVoxels: no early return for an empty list, so the
\* bounds are computed from bmin = 1e9, bmax = -1e9 before buildOctree gives nullptr
buildOctreeFromVoxelsUnguarded(points) ==
    IF points = <<>>
    THEN <<<<1000000000, 1000000000, 1000000000>>,
           <<1000000001, 1000000001, 1000000001>>, octreeData>>
    ELSE LET bmin == BoundsMin(points)
             bmax == BoundsMax(points)
             octreeRoot == buildOctree(points, bmin, bmax, 0)
         IN  <<bmin, bmax, Flatten(octreeRoot)>>

\* buildOctreeFromVoxels: the new <<octreeBoundsMin, octreeBoundsMax, octreeData>>
buildOctreeFromVoxels(points) ==
    IF points = <<>>
    THEN <<octreeBoundsMin, octreeBoundsMax, octreeData>>
    ELSE LET bmin == BoundsMin(points)
             bmax == BoundsMax(points)
             octreeRoot == buildOctree(points, bmin, bmax, 0)
         IN  <<bmin, bmax, Flatten(octreeRoot)>>

\* a count of the batch that a mutation continues: a render in between
\* (voxelDataDirty cleared by uploadVoxelData) starts a new batch
Pending(n) == IF voxelDataDirty THEN n ELSE 0

setVoxels(voxels) ==
    LET built == buildOctreeFromVoxels(voxels)
    IN  /\ Pending(mutations) < MaxMutations
        /\ voxelData' = voxels
        /\ voxelDataDirty' = TRUE
        /\ octreeBoundsMin' = built[1]
        /\ octreeBoundsMax' = built[2]
        /\ octreeData' = built[3]
        /\ octreeDataDirty' = TRUE
        /\ mutations' = Pending(mutations) + 1
        /\ rebuilds' = IF voxels = <<>> THEN Pending(rebuilds) ELSE Pending(rebuilds) + 1
        /\ builtFrom' = IF voxels = <<>> THEN builtFrom ELSE voxels
        /\ uploads' = 0
        /\ UNCHANGED <<nodeCount, nodes, u_octreeMin, u_octreeMax, drawn, residentFrom>>
        /\ UNCHANGED <<aoSampleCount, u_aoSampleCount, tvars, avars, parked>>

addVoxel(voxel) ==
    /\ Len(voxelData) < MaxVoxelData
    /\ Pending(mutations) < MaxMutations
    /\ voxelData' = Append(voxelData, voxel)
    /\ voxelDataDirty' = TRUE
    /\ mutations' = Pending(mutations) + 1
    /\ rebuilds' = Pending(rebuilds)
    /\ UNCHANGED <<octreeData, octreeDataDirty, octreeBoundsMin, octreeBoundsMax, builtFrom>>
    /\ UNCHANGED <<aoSampleCount, gvars, tvars, avars, parked>>

clearVoxels ==
    /\ Pending(mutations) < MaxMutations
    /\ voxelData' = <<>>
    /\ voxelDataDirty' = TRUE
    /\ mutations' = Pending(mutations) + 1
    /\ rebuilds' = Pending(rebuilds)
    /\ UNCHANGED <<octreeData, octreeDataDirty, octreeBoundsMin, octreeBoundsMax, builtFrom>>
    /\ UNCHANGED <<aoSampleCount, gvars, tvars, avars, parked>>

\* an assignment to the public field aoSampleCount
SetAoSampleCount(n) ==
    /\ aoSampleCount' = n
    /\ UNCHANGED <<voxelData, voxelDataDirty, octreeData, octreeDataDirty,
                   octreeBoundsMin, octreeBoundsMax, mutations, rebuilds, builtFrom>>
    /\ UNCHANGED <<gvars, tvars, avars, parked>>

\* mutant of Uploads: the dirty flag is not consulted
UploadsIgnoringFlag == octreeData # <<>>

\* uploadOctreeData transfers exactly when the flag is set and there are records
Uploads == octreeDataDirty /\ octreeData # <<>>

\* mutant of FlagAfterUpload: the flag is cleared by every call
FlagAlwaysCleared == FALSE

\* octreeDataDirty = false is the last statement after the transfers
FlagAfterUpload == IF Uploads THEN FALSE ELSE octreeDataDirty

\* mutant of BoundUniforms: the uniforms keep the values they had
BoundUniformsKept == <<u_octreeMin, u_octreeMax>>

\* setVec3("u_octreeMin", octreeBoundsMin), setVec3("u_octreeMax", octreeBoundsMax)
BoundUniforms == <<octreeBoundsMin, octreeBoundsMax>>

\* render: uploadVoxelData, uploadOctreeData, the uniforms, the draw call
render ==
    /\ voxelDataDirty' = FALSE
    /\ nodeCount' = IF Uploads THEN Len(octreeData) ELSE nodeCount
    /\ nodes' = IF Uploads THEN octreeData ELSE nodes
    /\ octreeDataDirty' = FlagAfterUpload
    /\ uploads' = IF Uploads THEN Min2(uploads + 1, MaxUploads) ELSE uploads
    /\ residentFrom' = IF Uploads THEN builtFrom ELSE residentFrom
    /\ u_octreeMin' = BoundUniforms[1]
    /\ u_octreeMax' = BoundUniforms[2]
    /\ u_aoSampleCount' = aoSampleCount
    /\ drawn' = TRUE
    /\ UNCHANGED <<voxelData, octreeData, octreeBoundsMin, octreeBoundsMax,
                   mutations, rebuilds, builtFrom, aoSampleCount>>
    /\ UNCHANGED <<tvars, avars, parked>>

(***************************************************************************)
(* SpecBuild: one setVoxels call on a freshly constructed renderer, for    *)
(* every voxel list of VoxelLists, followed by renders.                     *)
(***************************************************************************)
NextBuild ==
    \/ voxelData = <<>> /\ ~drawn /\ \E V \in VoxelLists : setVoxels(V)
    \/ render

SpecBuild == Init /\ [][NextBuild]_vars

(***************************************************************************)
(* SpecTrace: one scene given to a fresh renderer and drawn, then          *)
(* evaluation units over a grid of rays.                                    *)
(***************************************************************************)
SingleScene == <<Voxel(0, 0, 0, RED)>>
PairScene == <<Voxel(0, 0, 0, RED), Voxel(1, 0, 0, GREEN)>>
\* three voxels in a cube of edge 4 that starts at -1: two levels of internal nodes
CornerScene == <<Voxel(-1, 0, 0, RED), Voxel(2, 1, 1, GREEN), Voxel(0, 0, 0, GREEN)>>

TraceScenes == {SingleScene, PairScene, CornerScene, BlockScene}

Directions == {<<x, y, z>> : x \in -1 .. 1, y \in -1 .. 1, z \in -1 .. 1} \ {<<0, 0, 0>>}

\* origins in half units: outside the cube on either side, on cell boundaries
\* (even) and inside cells (odd)
TraceOrigins == {<<x, y, z>> : x \in {-2, 1, 2, 5, 9}, y \in {-2, 1, 2}, z \in {-2, 1}}

NextTrace ==
    \/ voxelData = <<>> /\ ~drawn /\ \E V \in TraceScenes : setVoxels(V)
    \/ ~drawn /\ render
    \/ \E m \in Modes, o \in TraceOrigins, d \in Directions : TraceBegin(m, o, d)
    \/ OctreeStep
    \/ ShadowStep
    \/ UnitEnd

SpecTrace == Init /\ [][NextTrace]_vars

(***************************************************************************)
(* SpecDeep: a scene eleven levels deep whose nodes along the main diagonal *)
(* have all eight children, traversed by rays along that diagonal.          *)
(***************************************************************************)
\* the voxel that makes octant o of the cube [0, 2h)^3 exist without lying on
\* the diagonal: the far corner of the octant, or off the diagonal in octant 7
SiblingVoxel(h, o) ==
    IF o = 7 THEN Voxel(2 * h - 1, h, h, GREEN)
    ELSE Voxel(IF Bit(o, 0) THEN 2 * h - 1 ELSE 0,
               IF Bit(o, 1) THEN 2 * h - 1 ELSE 0,
               IF Bit(o, 2) THEN 2 * h - 1 ELSE 0, GREEN)

\* seven siblings in each of the cubes of edge 2h = 2048 down to 2h = 8
RECURSIVE SiblingLevels(_)
SiblingLevels(h) ==
    IF h < 4 THEN <<>>
    ELSE [o \in 1 .. 7 |-> SiblingVoxel(h, o)] \o SiblingLevels(h \div 2)

DeepScene ==
    <<Voxel(0, 0, 0, RED)>> \o SiblingLevels(1024) \o <<Voxel(3, 0, 0, GREEN)>>

\* along the main diagonal through every centre, the same ray from inside the
\* voxel at the origin, and a ray along the x axis through that voxel
DeepRays == {<<<<-2, -2, -2>>, <<1, 1, 1>>>>, <<<<1, 1, 1>>, <<1, 1, 1>>>>,
             <<<<-2, 1, 1>>, <<1, 0, 0>>>>}

NextDeep ==
    \/ voxelData = <<>> /\ ~drawn /\ setVoxels(DeepScene)
    \/ ~drawn /\ render
    \/ \E m \in Modes, r \in DeepRays : TraceBegin(m, r[1], r[2])
    \/ OctreeStep
    \/ ShadowStep
    \/ UnitEnd

SpecDeep == Init /\ [][NextDeep]_vars

(***************************************************************************)
(* Spec: the renderer's whole interface, with a few scenes and rays        *)
(***************************************************************************)
Scenes == {<<>>, SingleScene, PairScene}
AddedVoxels == {Voxel(1, 0, 0, GREEN), Voxel(0, 1, 0, RED)}
Rays == {<<<<-2, 1, 1>>, <<1, 0, 0>>>>, <<<<1, 1, 1>>, <<1, 1, 1>>>>,
         <<<<3, 1, 5>>, <<0, 0, -1>>>>, <<<<-2, 1, 1>>, <<-1, 0, 0>>>>}

\* the application calls the renderer between frames, when no unit is running
Next ==
    \/ pc = "idle" /\ \E V \in Scenes : setVoxels(V)
    \/ pc = "idle" /\ \E v \in AddedVoxels : addVoxel(v)
    \/ pc = "idle" /\ clearVoxels
    \/ pc = "idle" /\ render
    \/ \E m \in Modes, r \in Rays : TraceBegin(m, r[1], r[2])
    \/ OctreeStep
    \/ ShadowStep
    \/ UnitEnd

Spec == Init /\ [][Next]_vars

(***************************************************************************)
(* SpecRun: the scenes of SpecTrace and the deep scene, each traversed by   *)
(* a few rays, with the evaluator running every unit it has begun.          *)
(***************************************************************************)
RunScenes == {PairScene, CornerScene, BlockScene, DeepScene}

\* along x through the first voxel, from inside the cube along the diagonal,
\* the diagonal from outside, a ray that misses, and one on a centre plane
RunRays == {<<<<-2, 1, 1>>, <<1, 0, 0>>>>, <<<<1, 1, 1>>, <<1, 1, 1>>>>,
            <<<<-2, -2, -2>>, <<1, 1, 1>>>>, <<<<-2, 1, 1>>, <<-1, 0, 0>>>>,
            <<<<1, 2, 1>>, <<1, -1, -1>>>>}

NextRun ==
    \/ voxelData = <<>> /\ ~drawn /\ \E V \in RunScenes : setVoxels(V)
    \/ ~drawn /\ render
    \/ \E m \in Modes, r \in RunRays : TraceBegin(m, r[1], r[2])
    \/ OctreeStep
    \/ ShadowStep
    \/ UnitEnd

\* the next iteration of while (sp > 0), whichever routine runs it: OctreeStep
\* and ShadowStep are the steps that begin one
LoopIteration == pc = "loop" /\ iterations' = iterations + 1

\* the GPU keeps running an invocation that is in its loop
SpecRun == Init /\ [][NextRun]_vars /\ WF_iterations(LoopIteration)

(***************************************************************************)
(* SpecColor: one voxel of any colour, channels out of [0, 1] included,    *)
(* given to a fresh renderer, drawn, and looked at along the x axis.        *)
(***************************************************************************)
ColorInputs ==
    {<<r, g, b, a>> : r \in {-20, 0, 17, 255}, g \in {0, 34, 300},
                      b \in {51, 255}, a \in {0, 68, 255}}

ColorRays == {<<<<-2, 1, 1>>, <<1, 0, 0>>>>, <<<<-2, 1, 1>>, <<-1, 0, 0>>>>}

NextColor ==
    \/ voxelData = <<>> /\ ~drawn /\ \E c \in ColorInputs : setVoxels(<<Voxel(0, 0, 0, c)>>)
    \/ ~drawn /\ render
    \/ \E m \in Modes, r \in ColorRays : TraceBegin(m, r[1], r[2])
    \/ OctreeStep
    \/ ShadowStep
    \/ UnitEnd

SpecColor == Init /\ [][NextColor]_vars

(***************************************************************************)
(* SpecAo: two voxels six cells apart in a cube of edge 8, a sample count   *)
(* below, inside and above 0 .. 16, and the ao routine from three points.   *)
(***************************************************************************)
AoScene == <<Voxel(0, 0, 0, RED), Voxel(6, 0, 0, GREEN)>>

AoSampleCounts == {-1, 0, 2, 4, 16, 17}

\* inside the voxel at the origin; 4.5 cells and 3.5 cells before the other voxel
AoOrigins == {<<1, 1, 1>>, <<3, 1, 1>>, <<5, 1, 1>>}

AoSeeds == 0 .. 2

NextAo ==
    \/ ~drawn /\ aoSampleCount = 4 /\ \E n \in AoSampleCounts : SetAoSampleCount(n)
    \/ voxelData = <<>> /\ ~drawn /\ setVoxels(AoScene)
    \/ ~drawn /\ voxelData # <<>> /\ render
    \/ \E o \in AoOrigins, seed \in AoSeeds : AoBegin(o, seed)
    \/ AoSample
    \/ OctreeStep
    \/ AoAccumulate
    \/ AoReturn
    \/ AoEnd

SpecAo == Init /\ [][NextAo]_vars

(***************************************************************************)
(* SpecUnits: two units of one draw, begun in any order and run in any      *)
(* interleaving; the application may give a new voxel set while they run,   *)
(* and renders again when the units of the draw have ended.                 *)
(***************************************************************************)
UnitScenes == {PairScene, CornerScene}

\* along x through the voxel at the origin, and the same ray from inside the cube
UnitRays == {<<<<-2, 1, 1>>, <<1, 0, 0>>>>, <<<<3, 1, 1>>, <<-1, 0, 0>>>>}

NextUnits ==
    \/ Pending(mutations) = 0 /\ \E V \in UnitScenes : setVoxels(V)
    \/ pc = "idle" /\ parked.pc = "idle" /\ render
    \/ \E m \in Modes, r \in UnitRays : TraceBegin(m, r[1], r[2])
    \/ OctreeStep
    \/ ShadowStep
    \/ UnitEnd
    \/ Switch
    \/ AoBegin(<<3, 1, 1>>, 0)
    \/ AoSample
    \/ AoAccumulate
    \/ AoReturn
    \/ AoEnd

SpecUnits == Init /\ [][NextUnits]_vars

(***************************************************************************)
(* SpecLife: the renderer's voxel-set interface and render, no unit running *)
(***************************************************************************)
LifeScenes == {<<>>, SingleScene, PairScene, CornerScene}

NextLife ==
    \/ \E V \in LifeScenes : setVoxels(V)
    \/ \E v \in AddedVoxels : addVoxel(v)
    \/ clearVoxels
    \/ render

SpecLife == Init /\ [][NextLife]_vars

(***************************************************************************)
(* Reading a flattened array back                                          *)
(***************************************************************************)
\* the pointer tree with every colour packed
RECURSIVE PackedTree(_)
PackedTree(node) ==
    IF ~node.present THEN Absent
    ELSE [present |-> TRUE, leaf |-> node.leaf, color |-> packColor(node.color),
          childMask |-> node.childMask,
          children |-> [k \in 1 .. 8 |-> PackedTree(node.children[k])]]

\* the tree a flattened array encodes below slot s: the child for octant i is
\* the record at first + (number of existing octants below i)
RECURSIVE Unflatten(_, _)
Unflatten(data, s) ==
    LET rec == data[s + 1]
        m == HeaderMask(rec.childMask)
        f == HeaderFirst(rec.childMask)
    IN  [present |-> TRUE, leaf |-> m = 0, color |-> rec.color, childMask |-> m,
         children |-> [k \in 1 .. 8 |->
                         IF Bit(m, k - 1)
                         THEN Unflatten(data, f + BitsBelow(m, k - 1))
                         ELSE Absent]]

RECURSIVE CountNodes(_)
CountNodes(node) ==
    IF ~node.present THEN 0
    ELSE 1 + CountNodes(node.children[1]) + CountNodes(node.children[2])
           + CountNodes(node.children[3]) + CountNodes(node.children[4])
           + CountNodes(node.children[5]) + CountNodes(node.children[6])
           + CountNodes(node.children[7]) + CountNodes(node.children[8])

RECURSIVE TreeDepth(_)
TreeDepth(node) ==
    IF ~node.present \/ node.leaf THEN 0
    ELSE 1 + Max2(Max2(Max2(TreeDepth(node.children[1]), TreeDepth(node.children[2])),
                       Max2(TreeDepth(node.children[3]), TreeDepth(node.children[4]))),
                  Max2(Max2(TreeDepth(node.children[5]), TreeDepth(node.children[6])),
                       Max2(TreeDepth(node.children[7]), TreeDepth(node.children[8]))))

\* the slots of data (0-based) and the child slots an internal record names
Slots(data) == 0 .. Len(data) - 1
IsInternal(data, s) == HeaderMask(data[s + 1].childMask) # 0
ChildSlots(data, s) ==
    LET h == data[s + 1].childMask
    IN  HeaderFirst(h) .. HeaderFirst(h) + PopCount(HeaderMask(h)) - 1

IsPow2(e) == \E k \in 0 .. 20 : e = Pow2(k)

\* the pointer tree of the voxel list the renderer was last given (SpecBuild)
BuiltTree == buildOctree(voxelData, octreeBoundsMin, octreeBoundsMax, 0)

(***************************************************************************)
(* Claims on the builder and the flattener (SpecBuild)                     *)
(***************************************************************************)

\* C1: for a non-empty voxel list the bounding cube has one edge length on all
\* three axes, the edge is a power of two, octreeBoundsMin is at or below every
\* voxel position and octreeBoundsMin + edge >= position + 1 on every axis.
C1_BoundingCube ==
    voxelData # <<>> =>
        LET edge == octreeBoundsMax[1] - octreeBoundsMin[1]
        IN  /\ IsPow2(edge)
            /\ \A a \in 1 .. 3 :
                /\ octreeBoundsMax[a] - octreeBoundsMin[a] = edge
                /\ \A i \in 1 .. Len(voxelData) :
                    /\ octreeBoundsMin[a] <= voxelData[i].pos[a]
                    /\ voxelData[i].pos[a] + 1 <= octreeBoundsMin[a] + edge

\* two voxels three cells apart on x and one on y: the extent 3 is rounded to 4
C1_Witness ==
    /\ Len(voxelData) = 2
    /\ voxelData[1].pos = <<1, 1, 1>>
    /\ voxelData[2].pos = <<-1, 0, 0>>
    /\ octreeBoundsMin = <<-1, 0, 0>>
    /\ octreeBoundsMin[1] + 3 = voxelData[1].pos[1] + 1
    /\ octreeBoundsMax = <<3, 4, 4>>

\* C2: octreeData holds exactly one record per node of the pointer tree, no
\* slot is left as allocated (GPUNode{0, 0}), and the root's record is slot 0.
C2_OneRecordPerNode ==
    voxelData # <<>> =>
        /\ Len(octreeData) = CountNodes(BuiltTree)
        /\ \A s \in Slots(octreeData) : octreeData[s + 1] # GPUNode(0, ZeroWord)
        /\ HeaderMask(octreeData[1].childMask) = BuiltTree.childMask
        /\ octreeData[1].color = packColor(BuiltTree.color)

\* a tree with absent subtrees: root, two internal children, two leaves
C2_Witness ==
    /\ Len(voxelData) = 2
    /\ Len(octreeData) = 5
    /\ PopCount(BuiltTree.childMask) = 2
    /\ TreeDepth(BuiltTree) = 2

\* C3: for every internal record at slot i with f = header >> 8 and
\* m = header & 0xFF, the slots f .. f + popcount(m) - 1 exist, belong to no
\* other parent, and slot f + k holds the child of the k-th set bit of m.
C3_ChildSlots ==
    voxelData # <<>> =>
        /\ \A s \in Slots(octreeData) :
              IsInternal(octreeData, s) => ChildSlots(octreeData, s) \subseteq Slots(octreeData)
        /\ \A s, t \in Slots(octreeData) :
              (s # t /\ IsInternal(octreeData, s) /\ IsInternal(octreeData, t))
                  => ChildSlots(octreeData, s) \cap ChildSlots(octreeData, t) = {}
        /\ Unflatten(octreeData, 0) = PackedTree(BuiltTree)

\* a root with two children of different colour in octants 0 and 1
C3_Witness ==
    /\ voxelData = <<Voxel(1, 0, 0, GREEN), Voxel(0, 0, 0, RED)>>
    /\ octreeData = <<GPUNode(EncodeHeader(1, 3), ZeroWord),
                      GPUNode(0, packColor(RED)), GPUNode(0, packColor(GREEN))>>

\* C4: the index of every child record is greater than the index of its parent.
C4_ChildAfterParent ==
    \A s \in Slots(octreeData) :
        IsInternal(octreeData, s) => \A c \in ChildSlots(octreeData, s) : c > s

\* an internal record that is not the root, with its child further on
C4_Witness ==
    \E s \in Slots(octreeData) :
        /\ s > 0
        /\ IsInternal(octreeData, s)
        /\ HeaderFirst(octreeData[s + 1].childMask) > s + 1

(***************************************************************************)
(* The leaves a flattened array describes, with their cubes                *)
(***************************************************************************)
\* the buffer on the GPU is an uploaded flattening
Uploaded == nodeCount > 0 /\ nodeCount = Len(nodes)

RECURSIVE LeafCubes(_, _, _, _)
LeafCubes(data, s, bmin, bmax) ==
    LET rec == data[s + 1]
        m == HeaderMask(rec.childMask)
        f == HeaderFirst(rec.childMask)
        center == Center(bmin, bmax)
    IN  IF m = 0 THEN {[slot |-> s, bmin |-> bmin, bmax |-> bmax, color |-> rec.color]}
        ELSE UNION {LeafCubes(data, f + BitsBelow(m, i),
                              SubMin(bmin, center, i), SubMax(bmax, center, i))
                    : i \in {j \in Octants : Bit(m, j)}}

\* the slab test of the unit's ray against a cube, written out
RayEnter(bmin, bmax) == rayAABB(ro, rd, bmin, bmax)[1]
RayExit(bmin, bmax) == rayAABB(ro, rd, bmin, bmax)[2]
RayMeets(bmin, bmax) ==
    /\ QCmp(RayEnter(bmin, bmax), RayExit(bmin, bmax)) <= 0
    /\ QCmp(RayExit(bmin, bmax), QZero) >= 0
\* the entry distance, 0 when the origin is inside
RayDist(bmin, bmax) ==
    IF QCmp(RayEnter(bmin, bmax), QZero) < 0 THEN QZero ELSE RayEnter(bmin, bmax)

HitLeaves ==
    {L \in LeafCubes(nodes, 0, u_octreeMin, u_octreeMax) : RayMeets(L.bmin, L.bmax)}

RootMissed == ~RayMeets(u_octreeMin, u_octreeMax)

(***************************************************************************)
(* Claims on the traversal (SpecTrace, SpecDeep)                           *)
(***************************************************************************)

\* C5: when the ray meets the cube of at least one leaf, traceOctree returns
\* the least entry distance over the leaves met (0 for a leaf that holds the
\* origin) and the colour of a leaf at that distance.
C5_NearestHit ==
    (pc = "done" /\ mode \in {"primary", "ao"} /\ Uploaded /\ HitLeaves # {}) =>
        \E L \in HitLeaves :
            /\ \A M \in HitLeaves :
                  QCmp(RayDist(L.bmin, L.bmax), RayDist(M.bmin, M.bmax)) <= 0
            /\ QCmp(result.a, RayDist(L.bmin, L.bmax)) = 0
            /\ result.rgb = UnpackRgb(L.color)

\* C6: traceShadow returns true exactly when the ray meets the cube of a leaf.
C6_ShadowIffLeafMet ==
    (pc = "done" /\ mode = "shadow" /\ Uploaded) => (shadowed <=> HitLeaves # {})

\* C7: a unit whose ray misses the root cube is finished at once, in each of
\* the three modes, with a miss, no occlusion, no node read and nothing pushed.
C7_RootMiss ==
    (pc # "idle" /\ RootMissed) =>
        /\ pc = "done"
        /\ stack = <<>>
        /\ nodeReads = 0
        /\ result = MissResult
        /\ ~shadowed
        /\ ~occAdded

\* an ao sample over an uploaded tree, its ray pointing away from the cube
C7_Witness ==
    /\ pc = "done"
    /\ mode = "ao"
    /\ Uploaded
    /\ RootMissed
    /\ QCmp(RayEnter(u_octreeMin, u_octreeMax), RayExit(u_octreeMin, u_octreeMax)) <= 0

\* C8: with nodeCount <= 0 every unit is finished at once with a miss (false
\* for traceShadow), without reading nodes[] and without entering the loop.
C8_EmptyBuffer ==
    (pc # "idle" /\ nodeCount <= 0) =>
        /\ pc = "done"
        /\ stack = <<>>
        /\ nodeReads = 0
        /\ result = MissResult
        /\ ~shadowed

\* a shadow unit on a buffer whose count is negative, the ray inside the bounds
C8_Witness ==
    /\ pc = "done"
    /\ mode = "shadow"
    /\ nodeCount < 0
    /\ ~RootMissed

\* C9: the distance of traceOctree's result is the sentinel -1 exactly while
\* no leaf has been recorded, and >= 0 once a leaf has been recorded.
C9_MissOrHit ==
    mode \in {"primary", "ao"} =>
        /\ recorded => QCmp(result.a, QZero) >= 0
        /\ ~recorded => result.a = QMiss
        /\ QCmp(QMiss, QZero) < 0

\* a hit recorded at distance 0: the origin lies inside the leaf's cube
C9_Witness ==
    /\ pc = "done"
    /\ mode = "primary"
    /\ recorded
    /\ result.a = QZero
    /\ \E L \in HitLeaves : QCmp(RayEnter(L.bmin, L.bmax), QZero) < 0

\* C10: no push of traceOctree or traceShadow is ever refused by sp < 64.
C10_StackSuffices == ~rejected

\* C11: a unit in which a push was refused because the stack was full does not
\* go on to return a hit or a miss as its result.
C11_OverflowIsFatal == ~(rejected /\ pc = "done")

(***************************************************************************)
(* Claims on the renderer's life cycle (SpecLife)                          *)
(***************************************************************************)
\* the records a complete build of the voxel list V gives; none for no voxel
FlattenedFrom(V) ==
    IF V = <<>> THEN <<>>
    ELSE Flatten(buildOctree(V, BoundsMin(V), BoundsMax(V), 0))

\* C12: once render has run after the last voxel-set mutation (uploadVoxelData
\* has cleared voxelDataDirty, which every mutation sets), the GPU octree buffer
\* holds the flattening of the octree of the renderer's current voxel set, and
\* its node count is the number of those records.
C12_RenderDrawsCurrentSet ==
    ~voxelDataDirty =>
        /\ nodes = FlattenedFrom(voxelData)
        /\ nodes # <<>> => nodeCount = Len(nodes)

\* C13: octreeDataDirty goes from true to false only in a step that transfers
\* the node count and all records of a non-empty octreeData; no step taken with
\* the flag false transfers anything; a render (the step that leaves no
\* mutation pending) taken with the flag true and octreeData empty transfers
\* nothing and leaves the flag true.
C13_DirtyFlag ==
    [][ /\ (octreeDataDirty /\ ~octreeDataDirty') =>
              /\ octreeData # <<>>
              /\ uploads' = uploads + 1
              /\ nodeCount' = Len(octreeData)
              /\ nodes' = octreeData
        /\ ~octreeDataDirty =>
              /\ uploads' <= uploads
              /\ UNCHANGED <<nodeCount, nodes>>
        /\ (octreeDataDirty /\ octreeData = <<>> /\ ~voxelDataDirty') =>
              /\ octreeDataDirty'
              /\ UNCHANGED <<uploads, nodeCount, nodes>>
      ]_vars

\* the flag has been cleared by the one transfer of the current records
C13_Witness ==
    /\ ~octreeDataDirty
    /\ uploads = 1
    /\ octreeData # <<>>
    /\ nodes = octreeData
    /\ nodeCount = Len(octreeData)

\* C14 as stated: the mutations issued after a render and before the next one
\* cause at most one octree rebuild and at most one octree buffer upload in total.
C14_OneRebuildOneUpload == (drawn /\ voxelDataDirty) => (rebuilds <= 1 /\ uploads <= 1)

\* C14, amended: however many mutations are issued between two consecutive
\* renders, the octree buffer is uploaded at most once for them (and not again
\* until the next setVoxels); the octree is rebuilt once in every setVoxels
\* call that is given voxels, so there are at most as many rebuilds as mutations.
C14_OneUploadPerBatch == uploads <= 1 /\ rebuilds <= mutations

\* a batch with two rebuilds, drawn after a single upload
C14_Witness ==
    /\ ~voxelDataDirty
    /\ rebuilds = 2
    /\ uploads = 1
    /\ nodes = octreeData

\* the pointer tree of the list octreeData was last built from
LastTree == buildOctree(builtFrom, BoundsMin(builtFrom), BoundsMax(builtFrom), 0)

\* C15: a setVoxels call with an empty list (a mutation that leaves the voxel
\* set empty and the octree marked dirty) leaves octreeData, octreeBoundsMin
\* and octreeBoundsMax as they were; buildOctree gives the absent tree, of no
\* node, for an empty list, and so for every octant of a root that holds no voxel.
C15_EmptyBuildNoOp ==
    [][ /\ (voxelData' = <<>> /\ octreeDataDirty' /\ mutations' = Pending(mutations) + 1) =>
              UNCHANGED <<octreeData, octreeBoundsMin, octreeBoundsMax>>
        /\ buildOctree(<<>>, octreeBoundsMin, octreeBoundsMax, 0) = Absent
        /\ CountNodes(buildOctree(<<>>, octreeBoundsMin, octreeBoundsMax, 0)) = 0
        /\ (builtFrom # <<>> /\ ~LastTree.leaf) =>
              \A i \in Octants :
                  SubPoints(builtFrom, Center(BoundsMin(builtFrom), BoundsMax(builtFrom)), i) = <<>>
                      => LastTree.children[i + 1] = Absent
      ]_vars

\* setVoxels was called with an empty list on a renderer that holds a built
\* octree: the one mutation of the batch set the flag and rebuilt nothing
C15_Witness ==
    /\ voxelData = <<>>
    /\ voxelDataDirty
    /\ mutations = 1
    /\ rebuilds = 0
    /\ octreeDataDirty
    /\ uploads = 0
    /\ octreeData = FlattenedFrom(builtFrom)
    /\ Len(octreeData) > 1

\* C16: once a draw has been issued with an uploaded octree buffer, the records
\* in the buffer are the flattening of one voxel list, and u_octreeMin and
\* u_octreeMax are the corners of the bounding cube of that same list.
C16_UniformsMatchBuffer ==
    (drawn /\ nodes # <<>>) =>
        /\ nodes = FlattenedFrom(residentFrom)
        /\ nodeCount = Len(nodes)
        /\ u_octreeMin = BoundsMin(residentFrom)
        /\ u_octreeMax = BoundsMax(residentFrom)

\* a draw after the voxel set was emptied again: the buffer and the uniforms
\* are still those of the three-voxel scene, whose cube starts at (-1, 0, 0)
C16_Witness ==
    /\ drawn
    /\ ~voxelDataDirty
    /\ voxelData = <<>>
    /\ mutations >= 2
    /\ residentFrom = CornerScene
    /\ nodes # <<>>
    /\ u_octreeMin = <<-1, 0, 0>>
    /\ u_octreeMax = <<3, 4, 4>>

\* C18: whatever calls came before, after setVoxels(V) with V non-empty the
\* renderer's octreeData and bounds are those that V alone determines: the
\* flattening of the tree of V in the bounding cube of V. (Two calls with the
\* same V, in a row or not, therefore leave identical buffers.)
C18_HistoryIndependent ==
    builtFrom # <<>> =>
        /\ octreeData = FlattenedFrom(builtFrom)
        /\ octreeBoundsMin = BoundsMin(builtFrom)
        /\ octreeBoundsMax = BoundsMax(builtFrom)

\* the second build of a batch, on a renderer whose GPU buffer holds a third scene
C18_Witness ==
    /\ rebuilds = 2
    /\ mutations = 2
    /\ residentFrom = CornerScene
    /\ builtFrom = PairScene
    /\ voxelData = PairScene
    /\ Len(octreeData) = 3

\* the colour of the only voxel, each channel clamped to a byte
OnlyColor ==
    LET c == voxelData[1].color
    IN  <<ClampByte(c[1]), ClampByte(c[2]), ClampByte(c[3]), ClampByte(c[4])>>

\* C17: the packed word of a voxel's colour has R in its most significant
\* byte, then G, then B, and A in its least significant byte, every channel a
\* byte in 0 .. 255; UNPACK_RGBA of that word gives red, green, blue, alpha in
\* this order, and the colour traceOctree returns for a hit is (r, g, b).
C17_PackUnpack ==
    (Len(voxelData) = 1 /\ Len(octreeData) = 1) =>
        LET word == octreeData[1].color
        IN  /\ \A k \in 1 .. 4 : word[k] \in 0 .. 255
            /\ word[1] * 256 + word[2] = OnlyColor[1] * 256 + OnlyColor[2]
            /\ word[3] * 256 + word[4] = OnlyColor[3] * 256 + OnlyColor[4]
            /\ unpackUnorm4x8(word)[1] = OnlyColor[4]
            /\ Abgr(unpackUnorm4x8(word)) = OnlyColor
            /\ (Uploaded /\ pc = "done" /\ mode = "primary" /\ recorded)
                   => result.rgb = SubSeq(OnlyColor, 1, 3)

\* a hit on a voxel whose red channel was below 0 and whose channels all differ
C17_Witness ==
    /\ Len(voxelData) = 1
    /\ voxelData[1].color = <<-20, 34, 51, 68>>
    /\ Uploaded
    /\ pc = "done"
    /\ mode = "primary"
    /\ recorded
    /\ result.rgb = <<0, 34, 51>>

\* C19: ao calls traceOctree min(max(u_aoSampleCount, 0), 16) times; the step
\* that ends sample i adds 2^-i to occ exactly when the distance d that
\* sample's call returned has 0 <= d < 4, and adds nothing otherwise (in the
\* scene of SpecAo, where no push is dropped: exactly when the sample's ray
\* meets a leaf less than 4 cells away); the value returned is occ brought
\* into [0, 1].
C19_AoSamples ==
    [][ /\ (aoPc = "sample" /\ aoPc' = "loop") =>
               /\ aoI' = aoI + 1
               /\ aoI \in 0 .. 15
               /\ occ' = occ + (IF QLeq(QZero, result.a) /\ QLess(result.a, QHalves(8))
                                THEN Pow2(16 - aoI) ELSE 0)
               /\ occ' # occ <=> \E L \in HitLeaves :
                                     QLess(RayDist(L.bmin, L.bmax), QHalves(8))
        /\ aoPc' = "done" =>
               /\ aoRays' = Min2(Max2(u_aoSampleCount, 0), 16)
               /\ aoI' = aoRays'
               /\ vao' \in 0 .. Pow2(16)
               /\ vao' = IF occ' > Pow2(16) THEN Pow2(16) ELSE occ'
      ]_vars

\* sixteen samples for a count of 17, from the point 4.5 cells before a voxel:
\* the samples along +x hit too far, those along -x (1, 7, 13) count
C19_Witness ==
    /\ aoPc = "done"
    /\ u_aoSampleCount = 17
    /\ aoRays = 16
    /\ aoOrigin = <<3, 1, 1>>
    /\ aoSeed = 0
    /\ occ = 32768 + 512 + 8
    /\ vao = occ

\* the buffer and the uniforms the units of a draw read
DrawInputs == <<nodeCount, nodes, u_octreeMin, u_octreeMax, u_aoSampleCount>>

\* what a unit that has returned hands to main
UnitOutput(u) == <<u.result, u.shadowed, u.occAdded>>

\* C20: a step of a unit (of traceOctree, traceShadow or ao) leaves the node
\* buffer, the bounds and the renderer's data as they are and changes the
\* locals of that unit only (a switch between units changes no unit's
\* locals, a step of ao leaves the other unit alone); the buffer and the
\* uniforms change only in render, when no unit of a draw is running; and two
\* units of one draw over an uploaded tree that have the same routine and the
\* same ray return the same output, however their steps were interleaved.
C20_UnitsIndependent ==
    [][ /\ (tvars' # tvars \/ parked' # parked) => UNCHANGED <<rvars, gvars>>
        /\ avars' # avars => UNCHANGED <<rvars, gvars, parked>>
        /\ parked' # parked =>
               /\ parked'.pc = pc /\ parked'.stack = stack /\ parked'.result = result
               /\ pc' = parked.pc /\ stack' = parked.stack /\ result' = parked.result
        /\ DrawInputs' # DrawInputs => (pc = "idle" /\ parked.pc = "idle" /\ drawn')
        /\ (/\ Uploaded'
            /\ pc' = "done"
            /\ parked'.pc = "done"
            /\ <<mode', ro', rd'>> = <<parked'.mode, parked'.ro, parked'.rd>>)
               => <<result', shadowed', occAdded'>> = UnitOutput(parked')
      ]_vars

\* two primary units with the same ray, both returned with a hit, one of
\* which read its first record before the other began
C20_Witness ==
    /\ Uploaded
    /\ pc = "done"
    /\ parked.pc = "done"
    /\ mode = "primary"
    /\ <<mode, ro, rd>> = <<parked.mode, parked.ro, parked.rd>>
    /\ recorded
    /\ parked.recorded
    /\ result = parked.result
    /\ voxelData # residentFrom

(***************************************************************************)
(* Further claims on the builder and the flattener (SpecBuild)             *)
(***************************************************************************)
\* the positions of the list on one axis, and the largest extent over the axes
AxisValues(a) == {voxelData[i].pos[a] : i \in 1 .. Len(voxelData)}
AxisExtent(a) ==
    LET lo == CHOOSE w \in AxisValues(a) : \A v \in AxisValues(a) : w <= v
        hi == CHOOSE w \in AxisValues(a) : \A v \in AxisValues(a) : v <= w
    IN  hi - lo + 1
LargestExtent ==
    CHOOSE e \in {AxisExtent(1), AxisExtent(2), AxisExtent(3)} :
        \A a \in 1 .. 3 : AxisExtent(a) <= e

\* C21: for a non-empty voxel list the edge of the bounding cube is a power of
\* two, at least the largest per-axis extent (max - min + 1), and no smaller
\* power of two is (the edge is 1, or half of it is below the extent);
\* octreeBoundsMin is the componentwise minimum of the positions.
C21_MinimalCube ==
    voxelData # <<>> =>
        LET edge == octreeBoundsMax[1] - octreeBoundsMin[1]
        IN  /\ IsPow2(edge)
            /\ edge >= 1
            /\ edge >= LargestExtent
            /\ edge = 1 \/ edge \div 2 < LargestExtent
            /\ \A a \in 1 .. 3 :
                /\ octreeBoundsMin[a] \in AxisValues(a)
                /\ \A v \in AxisValues(a) : octreeBoundsMin[a] <= v

\* the extent 4 on x is a power of two already and is the edge
C21_Witness ==
    /\ Len(voxelData) = 2
    /\ voxelData[1].pos = <<2, 0, 0>>
    /\ voxelData[2].pos = <<-1, 0, 0>>
    /\ octreeBoundsMin = <<-1, 0, 0>>
    /\ octreeBoundsMax = <<3, 4, 4>>
    /\ LargestExtent = 4

\* the leaf rule at node and below it, node being the tree of the cube
\* [min, max) at the given depth
RECURSIVE LeafRuleHolds(_, _, _, _)
LeafRuleHolds(node, min, max, depth) ==
    LET edge == max[1] - min[1]
        center == <<(min[1] + max[1]) \div 2, (min[2] + max[2]) \div 2,
                    (min[3] + max[3]) \div 2>>
    IN  /\ depth <= 16
        /\ node.leaf <=> (depth >= 16 \/ edge <= 1)
        /\ (node.leaf /\ depth < 16) => edge = 1
        /\ ~node.leaf =>
              \A i \in Octants :
                  node.children[i + 1].present =>
                      LeafRuleHolds(node.children[i + 1],
                                    SubMin(min, center, i), SubMax(max, center, i),
                                    depth + 1)

\* C22: in the tree built for a non-empty list a node is a leaf exactly when
\* its depth is at least 16 or the edge of its cube is at most 1; no node is
\* deeper than 16, and a leaf at a depth below 16 has edge exactly 1.
C22_LeafRule ==
    voxelData # <<>> => LeafRuleHolds(BuiltTree, octreeBoundsMin, octreeBoundsMax, 0)

\* the cube of edge 2^17: sixteen levels of internal nodes, leaves of edge 2
\* and of edge 1 at depth 16
C22_Witness ==
    /\ voxelData = WideScene
    /\ octreeBoundsMax[1] - octreeBoundsMin[1] = 131072
    /\ TreeDepth(BuiltTree) = 16
    /\ Len(octreeData) = 33

\* the indices of the voxels of the list that lie in the cube [bmin, bmax)
InCube(bmin, bmax) ==
    {i \in 1 .. Len(voxelData) :
        \A a \in 1 .. 3 : bmin[a] <= voxelData[i].pos[a] /\ voxelData[i].pos[a] < bmax[a]}

\* C23: every leaf record of the flattened tree has a voxel of the list in its
\* cube and carries the packed colour of the one with the least index in the
\* list; every voxel of the list lies in the cube of some leaf.
C23_FirstVoxelColour ==
    voxelData # <<>> =>
        LET leaves == LeafCubes(octreeData, 0, octreeBoundsMin, octreeBoundsMax)
        IN  /\ \A L \in leaves :
                  /\ InCube(L.bmin, L.bmax) # {}
                  /\ \E i \in InCube(L.bmin, L.bmax) :
                        /\ \A j \in InCube(L.bmin, L.bmax) : i <= j
                        /\ L.color = packColor(voxelData[i].color)
            /\ \A i \in 1 .. Len(voxelData) :
                  \E L \in leaves : i \in InCube(L.bmin, L.bmax)

\* two leaves below the root, each with two voxels of different colour at its
\* position, the green one first in the list
C23_Witness ==
    /\ voxelData = StackedScene
    /\ Len(octreeData) = 3
    /\ octreeData[2] = GPUNode(0, packColor(GREEN))
    /\ octreeData[3] = GPUNode(0, packColor(GREEN))

\* how often voxel v occurs in the list
Occurrences(list, v) == Cardinality({k \in 1 .. Len(list) : list[k] = v})

\* the bucketing at node and below it, node being the tree of the subset
\* points in the cube [min, max)
RECURSIVE BucketsHold(_, _, _, _)
BucketsHold(node, points, min, max) ==
    node.leaf \/
    LET c == <<(min[1] + max[1]) \div 2, (min[2] + max[2]) \div 2, (min[3] + max[3]) \div 2>>
        code(p) == (IF p[1] >= c[1] THEN 1 ELSE 0) + (IF p[2] >= c[2] THEN 2 ELSE 0)
                       + (IF p[3] >= c[3] THEN 4 ELSE 0)
        bucket(i) == SubPoints(points, c, i)
        lo(i) == SubMin(min, c, i)
        hi(i) == SubMax(max, c, i)
    IN  /\ \A k \in 1 .. Len(points) :
              LET v == points[k]
              IN  /\ \A i \in Octants :
                        Occurrences(bucket(i), v) =
                            IF i = code(v.pos) THEN Occurrences(points, v) ELSE 0
                  /\ \A a \in 1 .. 3 :
                        lo(code(v.pos))[a] <= v.pos[a] /\ v.pos[a] < hi(code(v.pos))[a]
        /\ \A i \in Octants :
              /\ Bit(node.childMask, i) <=> bucket(i) # <<>>
              /\ node.children[i + 1].present <=> bucket(i) # <<>>
              /\ bucket(i) # <<>> =>
                    BucketsHold(node.children[i + 1], bucket(i), lo(i), hi(i))

\* C24: at every internal node of a built tree each voxel of the node's
\* subset is in the bucket of its octant code (x >= cx: 1, y >= cy: 2,
\* z >= cz: 4) and in no other, its position lies in that octant's sub-cube,
\* and existence bit i is set exactly when bucket i is not empty.
C24_Buckets ==
    voxelData # <<>> =>
        BucketsHold(BuiltTree, voxelData, octreeBoundsMin, octreeBoundsMax)

\* voxels (0,0,0) and (1,0,0): a root with the two leaf children 0 and 1
C24_Witness ==
    /\ voxelData = <<Voxel(0, 0, 0, RED), Voxel(1, 0, 0, GREEN)>>
    /\ BuiltTree.childMask = 3
    /\ BuiltTree.children[1].leaf
    /\ BuiltTree.children[2].leaf
    /\ \A i \in 2 .. 7 : ~BuiltTree.children[i + 1].present

(***************************************************************************)
(* Further claims on the traversal (SpecTrace, SpecDeep)                   *)
(***************************************************************************)
\* the entry the loop is about to pop, when its record is an internal node
AtInternal ==
    /\ pc = "loop"
    /\ stack # <<>>
    /\ Uploaded
    /\ stack[Len(stack)].nodeIdx < Len(nodes)
    /\ HeaderMask(nodes[stack[Len(stack)].nodeIdx + 1].childMask) # 0

\* the builder's octant code (bit set when the coordinate is >= the centre's)
\* of the point ro + rd * t
BuilderCode(t, center) ==
    (IF QLeq(QHalves(2 * center[1] - ro[1]), QScale(rd[1], t)) THEN 1 ELSE 0) +
    (IF QLeq(QHalves(2 * center[2] - ro[2]), QScale(rd[2], t)) THEN 2 ELSE 0) +
    (IF QLeq(QHalves(2 * center[3] - ro[3]), QScale(rd[3], t)) THEN 4 ELSE 0)

\* C25: when traceOctree or traceShadow expands an internal node, the entry
\* octant it computes for the entry point ro + rd * tEnter is the builder's
\* octant code of that point relative to the node's centre.
C25_SameOctantCode ==
    AtInternal =>
        LET entry == stack[Len(stack)]
            center == Center(entry.bmin, entry.bmax)
        IN  EntryOctant(ro, rd, entry.tEnter, center) = BuilderCode(entry.tEnter, center)

\* the step expands an internal node: the loop pops its entry, does not prune
\* it, reads the record and pushes children
Expands ==
    /\ AtInternal
    /\ mode = "shadow" \/ ~QLess(closestT, stack[Len(stack)].tEnter)
    /\ nodeReads' = nodeReads + 1

\* the entries the step has left on the stack above the ones that were below
\* the expanded entry, in the order they were pushed
PushedNow == SubSeq(stack', Len(stack), Len(stack'))

\* the stored entry distances do not increase from the first entry pushed
\* to the last
PushedFrontToBack ==
    \A k \in 1 .. Len(PushedNow) - 1 :
        QLeq(PushedNow[k + 1].tEnter, PushedNow[k].tEnter)

\* the child in the entry octant, when it exists and passes the test that
\* lets a child be pushed, is the topmost entry after the step
EntryChildOnTop ==
    LET entry == stack[Len(stack)]
        center == Center(entry.bmin, entry.bmax)
        e == EntryOctant(ro, rd, entry.tEnter, center)
        cmin == ChildMin(entry, center, e)
        cmax == ChildMax(entry, center, e)
        m == HeaderMask(nodes[entry.nodeIdx + 1].childMask)
    IN  (Bit(m, e) /\ ChildWanted(mode, rayAABB(ro, rd, cmin, cmax), closestT)) =>
            /\ PushedNow # <<>>
            /\ PushedNow[Len(PushedNow)].bmin = cmin
            /\ PushedNow[Len(PushedNow)].bmax = cmax

\* C26: when a unit expands an internal node, the children it pushes lie on
\* the stack with entry distances that do not decrease from the top down, and
\* the child of the entry octant, if it exists and is intersected, is pushed
\* last, on top.
C26_FrontToBack ==
    [][Expands => (PushedFrontToBack /\ EntryChildOnTop)]_vars

\* no node index occurs twice among the indices the unit has pushed
NoIndexPushedTwice ==
    \A k, l \in 1 .. Len(pushLog) : pushLog[k] = pushLog[l] => k = l

\* C27: over an uploaded flattened array a unit that has entered the stack
\* loop of traceOctree or traceShadow leaves it (the stack has run empty, or
\* traceShadow has returned on a leaf), and it pushes no node index twice.
C27_Terminates ==
    /\ [](Uploaded => NoIndexPushedTwice)
    /\ (pc = "loop") ~> (pc = "done")

\* a traceOctree unit that has returned with an empty stack after reading
\* nine records or more
C27_Witness ==
    /\ Uploaded
    /\ pc = "done"
    /\ mode = "primary"
    /\ stack = <<>>
    /\ nodeReads >= 9
    /\ Len(pushLog) >= nodeReads

(***************************************************************************)
(* C28: the normal of a recorded hit                                       *)
(***************************************************************************)
\* a step of traceOctree that records a leaf as the hit
RecordsHit ==
    /\ pc = "loop"
    /\ mode # "shadow"
    /\ closestT' # closestT

\* rayAABB's tmin on axis a for the cube of the entry on top of the stack
NearSlab(a) ==
    QMin(SlabT(ro, rd, stack[Len(stack)].bmin, a), SlabT(ro, rd, stack[Len(stack)].bmax, a))

\* n is a unit vector along axis a, against the ray on that axis
UnitAgainstRay(n, a) ==
    /\ n[a] = -Sgn(rd[a])
    /\ n[a] # 0
    /\ \A b \in 1 .. 3 : b # a => n[b] = 0

\* C28: when traceOctree records a leaf hit, hitNormal is a unit vector along an
\* axis whose near-slab distance is the recorded entry distance, and its sign
\* is opposite to the ray direction on that axis
C28_EntryFaceNormal ==
    [][RecordsHit =>
        \E a \in 1 .. 3 : /\ UnitAgainstRay(hitNormal', a)
                          /\ QCmp(NearSlab(a), result'.a) = 0]_vars

(***************************************************************************)
(* C29: the stack entries and the records the flattener allocated          *)
(***************************************************************************)
\* the pointer tree with the cube of every node written on it
RECURSIVE TagTree(_, _, _)
TagTree(node, min, max) ==
    IF ~node.present THEN node
    ELSE [present |-> TRUE, leaf |-> node.leaf, color |-> node.color,
          childMask |-> node.childMask, bmin |-> min, bmax |-> max,
          children |-> [k \in 1 .. 8 |->
                           TagTree(node.children[k], SubMin(min, Center(min, max), k - 1),
                                   SubMax(max, Center(min, max), k - 1))]]

\* one iteration of the flattening loop, with the entry it takes from the
\* queue added to heads; sa is [st, heads]
HeadStep(sa) ==
    IF sa.st.queue = <<>> THEN sa
    ELSE [st |-> FlattenStep(sa.st), heads |-> sa.heads \cup {Head(sa.st.queue)}]

\* 2^k iterations, split in halves as in FlattenSteps
RECURSIVE HeadSteps(_, _)
HeadSteps(sa, k) ==
    IF k = 0 THEN HeadStep(sa)
    ELSE LET half == HeadSteps(sa, k - 1)
         IN  IF half.st.queue = <<>> THEN half ELSE HeadSteps(half, k - 1)

\* the entries the flattening loop takes from its queue, one per iteration
RECURSIVE QueueHeads(_, _)
QueueHeads(sa, k) ==
    IF sa.st.queue = <<>> THEN sa.heads
    ELSE QueueHeads(HeadSteps(sa, k), k + 1)

\* the slot the flattener gave to each node of the tree built from points
Allocated(points) ==
    QueueHeads([st |-> [queue |-> <<[node |-> TagTree(buildOctree(points, BoundsMin(points),
                                                                  BoundsMax(points), 0),
                                                      BoundsMin(points), BoundsMax(points)),
                                     selfIdx |-> 0]>>,
                        data |-> <<GPUNode(0, ZeroWord)>>],
                heads |-> {}], 0)

\* the GPU holds the flattened tree of a voxel list, with that list's bounds
MatchingBuffer ==
    /\ residentFrom # <<>>
    /\ nodeCount = Len(nodes)
    /\ nodes = buildOctreeFromVoxels(residentFrom)[3]
    /\ u_octreeMin = BoundsMin(residentFrom)
    /\ u_octreeMax = BoundsMax(residentFrom)

\* the entry names the slot of the node built for its cube
RefersToItsNode(e, alloc) ==
    /\ e.nodeIdx < nodeCount
    /\ \E h \in alloc :
          /\ h.selfIdx = e.nodeIdx
          /\ h.node.bmin = e.bmin
          /\ h.node.bmax = e.bmax
          /\ HeaderMask(nodes[e.nodeIdx + 1].childMask) = h.node.childMask
          /\ nodes[e.nodeIdx + 1].color = packColor(h.node.color)

\* C29: over a buffer produced by the flattener with its matching bounds, every
\* stack entry has nodeIdx < nodeCount and names the record of the node the
\* builder created for the entry's cube
C29_EntriesReferToNodes ==
    (MatchingBuffer /\ pc = "loop") =>
        LET alloc == Allocated(residentFrom)
        IN  \A k \in 1 .. Len(stack) : RefersToItsNode(stack[k], alloc)

\* a unit holds, above another entry, a child whose slot comes after skipped octants
C29_Witness ==
    /\ MatchingBuffer
    /\ pc = "loop"
    /\ Len(stack) >= 2
    /\ \E k \in 1 .. Len(stack) :
          /\ stack[k].nodeIdx >= 3
          /\ stack[k].bmin # u_octreeMin
          /\ RefersToItsNode(stack[k], Allocated(residentFrom))

(***************************************************************************)
(* C30: existence mask 0 and the leaves of the pointer tree                *)
(***************************************************************************)
\* the record at h's slot has mask 0, and header 0, exactly when h's node is a
\* leaf; a node that is not a leaf has a child
LeafIffMaskZero(h, data) ==
    /\ (HeaderMask(data[h.selfIdx + 1].childMask) = 0) <=> h.node.leaf
    /\ h.node.leaf => data[h.selfIdx + 1].childMask = 0
    /\ ~h.node.leaf => \E i \in 1 .. 8 : h.node.children[i].present

\* C30: in every flattened array each record belongs to one node of the pointer
\* tree and has existence mask 0, and header 0, exactly when that node is a leaf;
\* every internal node has a child; a single voxel flattens to one record, a
\* leaf with header 0 and the voxel's colour
C30_MaskZeroIffLeaf ==
    voxelData # <<>> =>
        LET alloc == Allocated(voxelData)
        IN  /\ {h.selfIdx : h \in alloc} = 0 .. Len(octreeData) - 1
            /\ Cardinality(alloc) = Len(octreeData)
            /\ \A h \in alloc : LeafIffMaskZero(h, octreeData)
            /\ Len(voxelData) = 1 =>
                  octreeData = <<GPUNode(0, packColor(voxelData[1].color))>>

\* the flattened tree of WideScene: internal nodes with the single child 0,
\* down to the leaves at depth 16
C30_Witness ==
    /\ voxelData = WideScene
    /\ Len(octreeData) > MAX_DEPTH
    /\ octreeData[1].childMask # 0
    /\ octreeData[Len(octreeData)].childMask = 0
    /\ \E h \in Allocated(voxelData) : ~h.node.leaf /\ h.node.childMask = 1

=============================================================================
